---------------------------- MODULE Spec2Model ----------------------------
(***************************************************************************)
(* KSYNC: the KYVE snapshot collector (app/collector/snapshots.go) and the *)
(* start command (cmd/ksync/commands).                                     *)
(*                                                                         *)
(* Strings are sequences of one-character strings, so that strings.Split   *)
(* and strconv.ParseInt are computed character by character.               *)
(***************************************************************************)
EXTENDS Integers, Sequences, FiniteSets

VARIABLES
    pool,       \* the pool as the chain's REST endpoint returns it (Pool.Data)
    bundles,    \* the pool's finalized bundles, bundle id i at position i+1
    remote,     \* the snapshot the pool is archiving right now
    collector,  \* the KyveSnapshotCollector of this session
    find,       \* the activation of FindSnapshotBundleIdForHeight
    ret,        \* what the last GetSnapshotHeight / GetCurrentHeight returned
    built,      \* the collector as its constructor returned it
    cmd         \* the start command: its flags, its tasks, quitCh

vars == <<pool, bundles, remote, collector, find, ret, built, cmd>>

-----------------------------------------------------------------------------
(* Bounds of the model *)

MaxHeight == 6
MaxInterval == 3
MaxChunks == 3
MaxBundles == 5
MaxTarget == 2

-----------------------------------------------------------------------------
(* Strings *)

Digits == <<"0", "1", "2", "3", "4", "5", "6", "7", "8", "9">>

IsDigit(c) == \E i \in 1..10 : Digits[i] = c

DigitVal(c) == (CHOOSE i \in 1..10 : Digits[i] = c) - 1

\* strconv.FormatInt(n, 10)
RECURSIVE Itoa(_)
Itoa(n) ==
    IF n < 0 THEN <<"-">> \o Itoa(-n)
    ELSE IF n < 10 THEN <<Digits[n + 1]>>
    ELSE Itoa(n \div 10) \o <<Digits[(n % 10) + 1]>>

\* strings.Split(s, "/"): the fields between the separators; always at least
\* one field, the empty string giving one empty field.
RECURSIVE SplitAcc(_, _, _)
SplitAcc(s, cur, acc) ==
    IF s = <<>> THEN Append(acc, cur)
    ELSE IF Head(s) = "/" THEN SplitAcc(Tail(s), <<>>, Append(acc, cur))
    ELSE SplitAcc(Tail(s), Append(cur, Head(s)), acc)

Split(s) == SplitAcc(s, <<>>, <<>>)

\* the value of a string of decimal digits
RECURSIVE DigitsValue(_, _)
DigitsValue(s, acc) ==
    IF s = <<>> THEN acc ELSE DigitsValue(Tail(s), (acc * 10) + DigitVal(Head(s)))

AllDigits(s) == \A i \in 1..Len(s) : IsDigit(s[i])

\* strconv.ParseInt(s, 10, 64): an optional sign, then one or more digits.
ParseInt(s) ==
    LET signed == s # <<>> /\ Head(s) \in {"+", "-"}
        body == IF signed THEN Tail(s) ELSE s
    IN  IF body = <<>> \/ ~AllDigits(body)
        THEN [err |-> TRUE, val |-> 0]
        ELSE [err |-> FALSE,
              val |-> IF signed /\ Head(s) = "-"
                      THEN 0 - DigitsValue(body, 0)
                      ELSE DigitsValue(body, 0)]

RECURSIVE Join(_)
Join(fields) ==
    IF fields = <<>> THEN <<>>
    ELSE IF Len(fields) = 1 THEN fields[1]
    ELSE fields[1] \o <<"/">> \o Join(Tail(fields))

\* the compound key "<height>/<chunkIndex>"
FormatKey(h, i) == Join(<<Itoa(h), Itoa(i)>>)

\* the bundle summary "height/format/chunkIndex/totalChunks"
FormatSummary(h, i, total) == Join(<<Itoa(h), <<"1">>, Itoa(i), Itoa(total)>>)

\* utils.ParseSnapshotFromKey: both components must be integers.
ParseSnapshotFromKey(key) ==
    LET s == Split(key)
        h == ParseInt(s[1])
        c == ParseInt(s[2])
    IN  IF Len(s) # 2 THEN [err |-> TRUE, height |-> 0, chunkIndex |-> 0]
        ELSE IF h.err \/ c.err THEN [err |-> TRUE, height |-> 0, chunkIndex |-> 0]
        ELSE [err |-> FALSE, height |-> h.val, chunkIndex |-> c.val]

\* Go's % on int64 truncates toward zero: the remainder has the dividend's sign.
GoRem(a, b) == IF a >= 0 THEN a % b ELSE 0 - ((0 - a) % b)


-----------------------------------------------------------------------------
(* The pool *)

RuntimeTendermintSsync == "tendermint-ssync"
RuntimeTendermintBsync == "tendermint-bsync"

\* json.Unmarshal of Pool.Data.Config into types.TendermintSSyncConfig: the
\* text is either no JSON at all, or yields the interval it states.
ConfigOf(interval) == [valid |-> TRUE, Interval |-> interval]
BadConfig == [valid |-> FALSE, Interval |-> 0]

PoolData(runtime, config, startKey, currentKey, currentSummary, totalBundles) ==
    [Runtime |-> runtime, Config |-> config, StartKey |-> startKey,
     CurrentKey |-> currentKey, CurrentSummary |-> currentSummary,
     TotalBundles |-> totalBundles]

\* utils.GetPool: the request fails, or returns the pool as it is now.
GetPool(netErr) == [err |-> netErr, Pool |-> pool]

-----------------------------------------------------------------------------
(* KyveSnapshotCollector *)

NoCollector ==
    [state |-> "none", earliestAvailableHeight |-> 0, latestAvailableHeight |-> 0,
     interval |-> 0, totalBundles |-> 0]

FailedCollector(why) == [NoCollector EXCEPT !.state = why]

\* the total compared with the chunk index itself
SummaryComplete_OffByOne(currentSummary, chunkIndex) ==
    LET summary == Split(currentSummary)
        totalChunks == ParseInt(summary[4])
    IN  /\ Len(summary) = 4
        /\ ~totalChunks.err
        /\ totalChunks.val = chunkIndex

\* the summary says the current snapshot is complete
SummaryComplete(currentSummary, chunkIndex) ==
    LET summary == Split(currentSummary)
        totalChunks == ParseInt(summary[4])
    IN  /\ Len(summary) = 4
        /\ ~totalChunks.err
        /\ totalChunks.val = chunkIndex + 1

\* going back one height instead of one interval
LatestAvailableHeight_OneBack(currentHeight, chunkIndex, interval, currentSummary) ==
    IF SummaryComplete(currentSummary, chunkIndex)
    THEN currentHeight
    ELSE currentHeight - 1

LatestAvailableHeight(currentHeight, chunkIndex, interval, currentSummary) ==
    IF SummaryComplete(currentSummary, chunkIndex)
    THEN currentHeight
    ELSE currentHeight - interval

NewKyveSnapshotCollector(poolResponse) ==
    LET data == poolResponse.Pool
        start == ParseSnapshotFromKey(data.StartKey)
        current == ParseSnapshotFromKey(data.CurrentKey)
    IN  IF poolResponse.err THEN FailedCollector("pool")
        ELSE IF data.Runtime # RuntimeTendermintSsync THEN FailedCollector("runtime")
        ELSE IF ~data.Config.valid THEN FailedCollector("config")
        ELSE IF start.err THEN FailedCollector("startKey")
        ELSE IF current.err THEN FailedCollector("currentKey")
        ELSE [state |-> "ready",
              earliestAvailableHeight |-> start.height,
              latestAvailableHeight |->
                  LatestAvailableHeight(current.height, current.chunkIndex,
                                        data.Config.Interval, data.CurrentSummary),
              interval |-> data.Config.Interval,
              totalBundles |-> data.TotalBundles]

\* the target returned as given
GetSnapshotHeight_NoRound(c, targetHeight, isServeSnapshot) ==
    IF targetHeight = 0 \/ targetHeight > c.latestAvailableHeight
    THEN IF isServeSnapshot /\ c.latestAvailableHeight > c.interval
         THEN c.latestAvailableHeight - c.interval
         ELSE c.latestAvailableHeight
    ELSE targetHeight

\* the target rounded to the boundary above it
GetSnapshotHeight_RoundUp(c, targetHeight, isServeSnapshot) ==
    IF targetHeight = 0 \/ targetHeight > c.latestAvailableHeight
    THEN IF isServeSnapshot /\ c.latestAvailableHeight > c.interval
         THEN c.latestAvailableHeight - c.interval
         ELSE c.latestAvailableHeight
    ELSE IF GoRem(targetHeight, c.interval) = 0 THEN targetHeight
    ELSE (targetHeight - GoRem(targetHeight, c.interval)) + c.interval

\* a target equal to the latest height taken as "the latest"
GetSnapshotHeight_AtLeast(c, targetHeight, isServeSnapshot) ==
    IF targetHeight = 0 \/ targetHeight >= c.latestAvailableHeight
    THEN IF isServeSnapshot /\ c.latestAvailableHeight > c.interval
         THEN c.latestAvailableHeight - c.interval
         ELSE c.latestAvailableHeight
    ELSE targetHeight - GoRem(targetHeight, c.interval)

\* the serve role not told apart
GetSnapshotHeight_NoServe(c, targetHeight, isServeSnapshot) ==
    IF targetHeight = 0 \/ targetHeight > c.latestAvailableHeight
    THEN c.latestAvailableHeight
    ELSE targetHeight - GoRem(targetHeight, c.interval)

GetSnapshotHeight(c, targetHeight, isServeSnapshot) ==
    IF targetHeight = 0 \/ targetHeight > c.latestAvailableHeight
    THEN IF isServeSnapshot /\ c.latestAvailableHeight > c.interval
         THEN c.latestAvailableHeight - c.interval
         ELSE c.latestAvailableHeight
    ELSE targetHeight - GoRem(targetHeight, c.interval)

GetCurrentHeight(poolResponse) ==
    LET current == ParseSnapshotFromKey(poolResponse.Pool.CurrentKey)
    IN  IF poolResponse.err THEN [err |-> "pool", value |-> 0]
        ELSE IF current.err THEN [err |-> "currentKey", value |-> 0]
        ELSE [err |-> "", value |-> current.height]

-----------------------------------------------------------------------------
(* Calls on the collector. The session's client makes one call at a time:  *)
(* find is the lookup in progress or returned last, ret the last return of *)
(* the other operations; the pool grows between any two steps.             *)

IdleFind ==
    [pc |-> "idle", height |-> 0, latestBundleId |-> 0, low |-> 0, high |-> 0,
     requests |-> <<>>, failedAt |-> 0, err |-> "", id |-> 0]

NoRet == [op |-> "none", target |-> 0, serve |-> FALSE, err |-> "", value |-> 0]

Targets == 0..(MaxHeight + 1)

Construct ==
    /\ collector.state = "none"
    /\ \E netErr \in BOOLEAN :
           collector' = NewKyveSnapshotCollector(GetPool(netErr))
    /\ built' = collector'
    /\ UNCHANGED <<pool, bundles, remote, find, ret, cmd>>

CallGetSnapshotHeight ==
    /\ collector.state = "ready"
    /\ \E targetHeight \in Targets, isServeSnapshot \in BOOLEAN :
           /\ ret' = [op |-> "GetSnapshotHeight", target |-> targetHeight,
                      serve |-> isServeSnapshot, err |-> "",
                      value |-> GetSnapshotHeight(collector, targetHeight,
                                                  isServeSnapshot)]
    /\ find' = IdleFind
    /\ UNCHANGED <<pool, bundles, remote, collector, built, cmd>>


-----------------------------------------------------------------------------
(* The constructor and GetSnapshotHeight over every pool response *)

CmdOff == [pc |-> "off"]

NoSnapshot == [height |-> 0, chunks |-> 0, summaries |-> FALSE]

\* the fourth field of a summary: integers written plainly, with a sign, with
\* a leading zero, no integer, nothing
FieldStrings ==
    {Itoa(k) : k \in 0..(MaxChunks + 1)}
        \cup {<<"+">> \o Itoa(k) : k \in 1..MaxChunks}
        \cup {<<"0">> \o Itoa(k) : k \in 1..MaxChunks}
        \cup {<<"-", "1">>, <<"x">>, <<"1", "x">>, <<"+">>, <<>>}

\* a summary of n fields whose last field (the fourth, of five) is f
MkSummary(n, f) ==
    Join([i \in 1..n |-> IF i = (IF n < 4 THEN n ELSE 4) THEN f ELSE <<"1">>])

SummaryStrings ==
    {MkSummary(4, f) : f \in FieldStrings}
        \cup {MkSummary(n, Itoa(k)) : n \in {1, 2, 3, 5}, k \in 1..MaxChunks}
        \cup {<<>>}

BadKeys == {<<>>, <<"1">>, <<"x", "/", "0">>, <<"1", "/", "0", "/", "0">>}

GoodPools ==
    {PoolData(RuntimeTendermintSsync, ConfigOf(interval), FormatKey(startHeight, 0),
              FormatKey(currentHeight, chunkIndex), currentSummary, 1) :
        interval \in 1..MaxInterval, startHeight \in 0..MaxHeight,
        currentHeight \in 0..MaxHeight, chunkIndex \in 0..(MaxChunks - 1),
        currentSummary \in SummaryStrings}

BasePool ==
    PoolData(RuntimeTendermintSsync, ConfigOf(1), FormatKey(0, 0), FormatKey(1, 0),
             FormatSummary(1, 0, 1), 1)

BadPools ==
    {[BasePool EXCEPT !.Runtime = RuntimeTendermintBsync],
     [BasePool EXCEPT !.Config = BadConfig]}
        \cup {[BasePool EXCEPT !.StartKey = k] : k \in BadKeys}
        \cup {[BasePool EXCEPT !.CurrentKey = k] : k \in BadKeys}

FnInit ==
    /\ pool \in GoodPools \cup BadPools
    /\ bundles = <<>>
    /\ remote = NoSnapshot
    /\ collector = NoCollector
    /\ find = IdleFind
    /\ ret = NoRet
    /\ built = NoCollector
    /\ cmd = CmdOff

FnNext == Construct \/ CallGetSnapshotHeight

FnSpec == FnInit /\ [][FnNext]_vars


-----------------------------------------------------------------------------
(* The pool as it grows: one bundle per snapshot chunk *)

Bundle(h, i) == [height |-> h, chunkIndex |-> i, ToKey |-> FormatKey(h, i)]

LastBundle == bundles[Len(bundles)]

\* the snapshot whose chunks are being archived is complete
SnapshotArchived == bundles = <<>> \/ LastBundle.chunkIndex + 1 = remote.chunks

\* the summary the protocol node writes for the bundle of chunk i
BundleSummary(h, i, total) ==
    IF remote.summaries THEN FormatSummary(h, i, total) ELSE <<>>

Finalize(h, i, total) ==
    /\ bundles' = Append(bundles, Bundle(h, i))
    /\ remote' = [remote EXCEPT !.height = h, !.chunks = total]
    /\ pool' = [pool EXCEPT !.CurrentKey = FormatKey(h, i),
                            !.CurrentSummary = BundleSummary(h, i, total),
                            !.TotalBundles = Len(bundles) + 1]

\* the pool finalizes the next bundle: the next chunk of the snapshot it is
\* archiving, or the first chunk of the snapshot one interval later
AppendBundle ==
    /\ Len(bundles) < MaxBundles
    /\ IF SnapshotArchived
       THEN LET h == IF bundles = <<>> THEN remote.height
                     ELSE remote.height + pool.Config.Interval
            IN  /\ h <= MaxHeight
                /\ \E total \in 1..MaxChunks : Finalize(h, 0, total)
       ELSE Finalize(remote.height, LastBundle.chunkIndex + 1, remote.chunks)
    /\ UNCHANGED <<collector, find, ret, built, cmd>>

-----------------------------------------------------------------------------
(* FindSnapshotBundleIdForHeight, one bundle request at a time *)

\* utils.GetFinalizedBundleById on the bundles bs: the request fails, or
\* answers with the bundle, whose to_key may be missing from the answer.
FetchOutcomes(bs, bundleId) ==
    {[err |-> TRUE, ToKey |-> <<>>]}
        \cup (IF bundleId \in 0..(Len(bs) - 1)
              THEN {[err |-> FALSE, ToKey |-> bs[bundleId + 1].ToKey],
                    [err |-> FALSE, ToKey |-> <<>>]}
              ELSE {})

FindReturn(f, err, id) == [f EXCEPT !.pc = "done", !.err = err, !.id = id]

FindFail(f, err) ==
    [FindReturn(f, err, 0) EXCEPT !.failedAt = Len(f.requests)]

\* the loop test: low and high have met
LoopTest(f) ==
    IF f.pc = "search" /\ f.low > f.high THEN FindReturn(f, "notfound", 0) ELSE f

\* the number of bundles read from the pool as it is now
FindBegin_FreshTotal(c, height) ==
    LoopTest([pc |-> IF height = c.latestAvailableHeight THEN "fast" ELSE "search",
              height |-> height,
              latestBundleId |-> pool.TotalBundles - 1,
              low |-> 0,
              high |-> pool.TotalBundles - 1,
              requests |-> <<>>, failedAt |-> 0, err |-> "", id |-> 0])

FindBegin(c, height) ==
    LoopTest([pc |-> IF height = c.latestAvailableHeight THEN "fast" ELSE "search",
              height |-> height,
              latestBundleId |-> c.totalBundles - 1,
              low |-> 0,
              high |-> c.totalBundles - 1,
              requests |-> <<>>, failedAt |-> 0, err |-> "", id |-> 0])

Requested(f, bundleId) == [f EXCEPT !.requests = Append(f.requests, bundleId)]

\* the fast path, after the answer to its request
FastPath(f, response) ==
    LET g == Requested(f, f.latestBundleId)
        key == ParseSnapshotFromKey(response.ToKey)
    IN  IF response.err THEN FindFail(g, "fetch")
        ELSE IF key.err THEN FindFail(g, "parse")
        ELSE IF key.height = f.height
             THEN FindReturn(g, "", f.latestBundleId - key.chunkIndex)
        ELSE LoopTest([g EXCEPT !.pc = "search"])

Mid(f) == (f.low + f.high) \div 2

\* a failed request asked again in the next turn
SearchProbe_Retry(f, response) ==
    LET g == Requested(f, Mid(f))
        key == ParseSnapshotFromKey(response.ToKey)
    IN  IF response.err THEN [g EXCEPT !.failedAt = Len(g.requests)]
        ELSE IF key.err THEN FindFail(g, "parse")
        ELSE IF key.height < f.height THEN LoopTest([g EXCEPT !.low = Mid(f) + 1])
        ELSE IF key.height > f.height THEN LoopTest([g EXCEPT !.high = Mid(f) - 1])
        ELSE FindReturn(g, "", Mid(f) - key.chunkIndex)

\* the first bundle found of the height returned as it is
SearchProbe_NoWalkBack(f, response) ==
    LET g == Requested(f, Mid(f))
        key == ParseSnapshotFromKey(response.ToKey)
    IN  IF response.err THEN FindFail(g, "fetch")
        ELSE IF key.err THEN FindFail(g, "parse")
        ELSE IF key.height < f.height THEN LoopTest([g EXCEPT !.low = Mid(f) + 1])
        ELSE IF key.height > f.height THEN LoopTest([g EXCEPT !.high = Mid(f) - 1])
        ELSE FindReturn(g, "", Mid(f))

\* one turn of the binary search, after the answer to its request
SearchProbe(f, response) ==
    LET g == Requested(f, Mid(f))
        key == ParseSnapshotFromKey(response.ToKey)
    IN  IF response.err THEN FindFail(g, "fetch")
        ELSE IF key.err THEN FindFail(g, "parse")
        ELSE IF key.height < f.height THEN LoopTest([g EXCEPT !.low = Mid(f) + 1])
        ELSE IF key.height > f.height THEN LoopTest([g EXCEPT !.high = Mid(f) - 1])
        ELSE FindReturn(g, "", Mid(f) - key.chunkIndex)

\* the bundle the activation requests next
NextRequest(f) == IF f.pc = "fast" THEN f.latestBundleId ELSE Mid(f)

FindStep(f, response) ==
    IF f.pc = "fast" THEN FastPath(f, response) ELSE SearchProbe(f, response)

CallFind ==
    /\ collector.state = "ready"
    /\ find.pc \in {"idle", "done"}
    /\ \E height \in 0..MaxHeight : find' = FindBegin(collector, height)
    /\ ret' = NoRet
    /\ UNCHANGED <<pool, bundles, remote, collector, built, cmd>>

FindFastPath ==
    /\ find.pc = "fast"
    /\ \E response \in FetchOutcomes(bundles, find.latestBundleId) :
           find' = FastPath(find, response)
    /\ UNCHANGED <<pool, bundles, remote, collector, ret, built, cmd>>

FindSearch ==
    /\ find.pc = "search"
    /\ \E response \in FetchOutcomes(bundles, Mid(find)) :
           find' = SearchProbe(find, response)
    /\ UNCHANGED <<pool, bundles, remote, collector, ret, built, cmd>>

CallGetCurrentHeight ==
    /\ collector.state = "ready"
    /\ \E netErr \in BOOLEAN :
           LET r == GetCurrentHeight(GetPool(netErr))
           IN  ret' = [op |-> "GetCurrentHeight", target |-> 0, serve |-> FALSE,
                       err |-> r.err, value |-> r.value]
    /\ find' = IdleFind
    /\ UNCHANGED <<pool, bundles, remote, collector, built, cmd>>

Init ==
    /\ \E interval \in 1..MaxInterval, summaries \in BOOLEAN :
         \E startHeight \in {0, interval} :
           /\ pool = PoolData(RuntimeTendermintSsync, ConfigOf(interval),
                              FormatKey(startHeight, 0), <<>>, <<>>, 0)
           /\ remote = [height |-> startHeight, chunks |-> 0,
                        summaries |-> summaries]
    /\ bundles = <<>>
    /\ collector = NoCollector
    /\ find = IdleFind
    /\ ret = NoRet
    /\ built = NoCollector
    /\ cmd = CmdOff

Next ==
    \/ AppendBundle
    \/ Construct
    \/ CallGetSnapshotHeight
    \/ CallGetCurrentHeight
    \/ CallFind
    \/ FindFastPath
    \/ FindSearch

Spec == Init /\ [][Next]_vars

-----------------------------------------------------------------------------
(* What the properties read off a pool response *)

Heights == 0..MaxHeight
ChunkIndexes == 0..(MaxChunks - 1)

\* the pool's keys are well formed: "<height>/0" and "<height>/<chunkIndex>"
KeysDecode ==
    /\ \E h \in Heights : pool.StartKey = FormatKey(h, 0)
    /\ \E h \in Heights, i \in ChunkIndexes : pool.CurrentKey = FormatKey(h, i)

StartHeightOf == CHOOSE h \in Heights : pool.StartKey = FormatKey(h, 0)

CurrentOf ==
    CHOOSE k \in Heights \X ChunkIndexes : pool.CurrentKey = FormatKey(k[1], k[2])

RECURSIVE StripZeros(_)
StripZeros(s) ==
    IF Len(s) > 1 /\ Head(s) = "0" THEN StripZeros(Tail(s)) ELSE s

\* text f is a decimal integer literal of value v >= 0
Denotes(f, v) ==
    LET body == IF f # <<>> /\ Head(f) = "+" THEN Tail(f) ELSE f
    IN  body # <<>> /\ StripZeros(body) = Itoa(v)

Slashes(s) == {i \in 1..Len(s) : s[i] = "/"}

\* the text after the last "/"
LastField(s) ==
    LET last == CHOOSE i \in Slashes(s) : \A j \in Slashes(s) : j <= i
    IN  SubSeq(s, last + 1, Len(s))

\* "height/format/chunkIndex/totalChunks" with totalChunks == chunkIndex + 1
SaysComplete(summary, chunkIndex) ==
    /\ Cardinality(Slashes(summary)) = 3
    /\ Denotes(LastField(summary), chunkIndex + 1)

OnBoundary(h, interval) == h % interval = 0

IsSnapshotHeightCall == collector.state = "ready" /\ ret.op = "GetSnapshotHeight"

-----------------------------------------------------------------------------
(* C2: GetSnapshotHeight(k*interval + r, false) == k*interval *)

RoundsDown ==
    \A k \in 0..(MaxHeight + 1), r \in 0..(collector.interval - 1) :
        ret.target = (k * collector.interval) + r
            => ret.value = k * collector.interval

\* C2 as stated: for all interval > 0, k >= 0 and 0 <= r < interval,
\* GetSnapshotHeight(k*interval + r, false) == k*interval whenever
\* k*interval + r <= latestAvailableHeight, the target 0 included.
C2_RoundDownIncludingZero ==
    (IsSnapshotHeightCall /\ ~ret.serve
        /\ ret.target <= collector.latestAvailableHeight) => RoundsDown

\* C2 amended: the same for every target k*interval + r with
\* 0 < k*interval + r <= latestAvailableHeight; the target 0 means "latest".
C2_RoundDown ==
    (IsSnapshotHeightCall /\ ~ret.serve /\ ret.target > 0
        /\ ret.target <= collector.latestAvailableHeight) => RoundsDown

C2_Witness ==
    /\ IsSnapshotHeightCall /\ ~ret.serve
    /\ collector.interval = 2 /\ ret.target = 5 /\ ret.value = 4
    /\ collector.latestAvailableHeight = 6

-----------------------------------------------------------------------------
(* C3: GetSnapshotHeight(latestAvailableHeight, true) *)

IsServeLatestCall ==
    IsSnapshotHeightCall /\ ret.serve /\ ret.target = collector.latestAvailableHeight

\* C3 as stated: GetSnapshotHeight(latestAvailableHeight, true) is
\* latestAvailableHeight - interval whenever latestAvailableHeight > interval,
\* and latestAvailableHeight otherwise.
C3_ServeLatestStepsBack ==
    IsServeLatestCall =>
        ret.value = IF collector.latestAvailableHeight > collector.interval
                    THEN collector.latestAvailableHeight - collector.interval
                    ELSE collector.latestAvailableHeight

\* C3 amended: GetSnapshotHeight(latestAvailableHeight, true) is
\* latestAvailableHeight rounded down to an interval boundary, which is
\* latestAvailableHeight itself when it lies on one; it is never stepped back.
C3_ServeLatestRounds ==
    IsServeLatestCall =>
        /\ ret.value = collector.latestAvailableHeight
                          - (collector.latestAvailableHeight % collector.interval)
        /\ OnBoundary(collector.latestAvailableHeight, collector.interval)
              => ret.value = collector.latestAvailableHeight

C3_Witness ==
    /\ IsServeLatestCall
    /\ collector.latestAvailableHeight > collector.interval
    /\ OnBoundary(collector.latestAvailableHeight, collector.interval)
    /\ ret.value = collector.latestAvailableHeight

-----------------------------------------------------------------------------
(* C4: no target, or a target above the latest available height *)

\* C4: for every targetHeight that is 0 or greater than latestAvailableHeight,
\* GetSnapshotHeight returns latestAvailableHeight - interval when isServe and
\* latestAvailableHeight > interval, and latestAvailableHeight in every other
\* case; GetSnapshotHeight(0, false) == latestAvailableHeight.
C4_LatestOrStepBack ==
    (IsSnapshotHeightCall
        /\ (ret.target = 0 \/ ret.target > collector.latestAvailableHeight))
    => /\ (ret.serve /\ collector.latestAvailableHeight > collector.interval)
            => ret.value = collector.latestAvailableHeight - collector.interval
       /\ (~ret.serve \/ collector.latestAvailableHeight <= collector.interval)
            => ret.value = collector.latestAvailableHeight

C4_Witness ==
    /\ IsSnapshotHeightCall /\ ret.serve
    /\ ret.target > collector.latestAvailableHeight
    /\ collector.latestAvailableHeight > collector.interval
    /\ ret.value = collector.latestAvailableHeight - collector.interval


-----------------------------------------------------------------------------
(* C5: the summary decides latestAvailableHeight, and nothing else *)

Constructed(startKey, currentKey, currentSummary, interval) ==
    NewKyveSnapshotCollector(
        [err |-> FALSE,
         Pool |-> PoolData(RuntimeTendermintSsync, ConfigOf(interval), startKey,
                           currentKey, currentSummary, 1)])

C5_Examples ==
    /\ Constructed(FormatKey(0, 0), FormatKey(100, 3), FormatSummary(100, 3, 4), 10)
           .latestAvailableHeight = 100
    /\ Constructed(FormatKey(0, 0), FormatKey(100, 2), FormatSummary(100, 3, 4), 10)
           .latestAvailableHeight = 90
    /\ Constructed(FormatKey(0, 0), FormatKey(5000, 2), FormatSummary(5000, 2, 5), 1000)
           .latestAvailableHeight = 4000

\* C5: latestAvailableHeight == currentHeight exactly when currentSummary has
\* exactly 4 fields and its 4th is an integer equal to currentPartIndex + 1;
\* for every other summary it is currentHeight - interval, and no summary
\* makes the construction fail.
C5_SummaryCompletion ==
    /\ (KeysDecode /\ collector.state = "ready") =>
           /\ SaysComplete(pool.CurrentSummary, CurrentOf[2])
                  => collector.latestAvailableHeight = CurrentOf[1]
           /\ ~SaysComplete(pool.CurrentSummary, CurrentOf[2])
                  => collector.latestAvailableHeight
                         = CurrentOf[1] - collector.interval
           /\ collector.interval > 0
    /\ (KeysDecode /\ pool.Runtime = RuntimeTendermintSsync /\ pool.Config.valid)
           => collector.state \in {"none", "pool", "ready"}
    /\ C5_Examples

\* a summary of four fields whose fourth is "+<chunkIndex + 1>", after the
\* constructor ran
C5_Witness ==
    /\ KeysDecode /\ collector.state = "ready"
    /\ CurrentOf[2] = 1
    /\ pool.CurrentSummary = MkSummary(4, <<"+", "2">>)
    /\ collector.latestAvailableHeight = CurrentOf[1]

-----------------------------------------------------------------------------
(* C6: earliestAvailableHeight and latestAvailableHeight *)

BoundaryPool ==
    /\ KeysDecode /\ collector.state = "ready"
    /\ OnBoundary(StartHeightOf, collector.interval)
    /\ OnBoundary(CurrentOf[1], collector.interval)
    /\ StartHeightOf <= CurrentOf[1]

IntervalsApart ==
    (collector.latestAvailableHeight - collector.earliestAvailableHeight)
        % collector.interval = 0

\* the current snapshot is the pool's first and the summary does not say it
\* is complete
FirstSnapshotIncomplete ==
    /\ CurrentOf[1] = StartHeightOf
    /\ ~SaysComplete(pool.CurrentSummary, CurrentOf[2])

\* C6 as stated: every collector the constructor returns has
\* earliestAvailableHeight <= latestAvailableHeight, an exact number of
\* intervals apart, also for a pool whose first snapshot is still incomplete.
C6_EarliestBelowLatest ==
    BoundaryPool =>
        /\ collector.earliestAvailableHeight <= collector.latestAvailableHeight
        /\ IntervalsApart

\* C6 amended: the two heights are an exact number of intervals apart and
\* earliestAvailableHeight - interval <= latestAvailableHeight; the latest is
\* below the earliest, by exactly one interval, exactly when the current
\* snapshot is the pool's first and not complete.
C6_EarliestWithinOneInterval ==
    BoundaryPool =>
        /\ IntervalsApart
        /\ collector.earliestAvailableHeight - collector.interval
               <= collector.latestAvailableHeight
        /\ (collector.latestAvailableHeight < collector.earliestAvailableHeight)
               <=> FirstSnapshotIncomplete

C6_Witness ==
    /\ BoundaryPool /\ FirstSnapshotIncomplete
    /\ collector.interval = 2 /\ collector.earliestAvailableHeight = 2
    /\ collector.latestAvailableHeight = 0

-----------------------------------------------------------------------------
(* C10: the height GetSnapshotHeight returns *)

AvailableBounds ==
    /\ IsSnapshotHeightCall
    /\ collector.interval > 0
    /\ collector.earliestAvailableHeight <= collector.latestAvailableHeight
    /\ OnBoundary(collector.earliestAvailableHeight, collector.interval)
    /\ OnBoundary(collector.latestAvailableHeight, collector.interval)

WantsLatest == ret.target = 0 \/ ret.target > collector.latestAvailableHeight

\* a target given, below the first snapshot of the pool
TargetBelowEarliest ==
    ret.target # 0 /\ ret.target < collector.earliestAvailableHeight

\* the serve role steps back from the only snapshot of the pool
StepsBackBelowEarliest ==
    /\ ret.serve /\ WantsLatest
    /\ collector.latestAvailableHeight = collector.earliestAvailableHeight
    /\ collector.latestAvailableHeight > collector.interval

\* C10 as stated: for every targetHeight >= 0 and either role the height
\* returned lies on an interval boundary between earliestAvailableHeight and
\* latestAvailableHeight.
C10_ReturnsAvailableHeight ==
    AvailableBounds =>
        /\ collector.earliestAvailableHeight <= ret.value
        /\ ret.value <= collector.latestAvailableHeight
        /\ OnBoundary(ret.value, collector.interval)

\* C10 amended: the height returned lies on an interval boundary and is at
\* most latestAvailableHeight; it is below earliestAvailableHeight exactly
\* for a non-zero target below earliestAvailableHeight (the target rounded
\* down) and for the serve role's step back when the pool's only snapshot is
\* above one interval (earliestAvailableHeight - interval).
C10_ReturnsBoundaryAtMostLatest ==
    AvailableBounds =>
        /\ ret.value <= collector.latestAvailableHeight
        /\ OnBoundary(ret.value, collector.interval)
        /\ (ret.value < collector.earliestAvailableHeight)
               <=> (TargetBelowEarliest \/ StepsBackBelowEarliest)
        /\ TargetBelowEarliest
               => ret.value = ret.target - (ret.target % collector.interval)
        /\ StepsBackBelowEarliest
               => ret.value = collector.earliestAvailableHeight - collector.interval

C10_Witness ==
    /\ AvailableBounds /\ StepsBackBelowEarliest
    /\ collector.interval = 2 /\ collector.earliestAvailableHeight = 4
    /\ ret.value = 2


-----------------------------------------------------------------------------
(* C1: the lookup returns the first bundle of the height *)

\* the answer to a request for a bundle of bs when nothing goes wrong: there
\* is none for an id that bs does not hold
Answer(bs, bundleId) ==
    IF bundleId \in 0..(Len(bs) - 1)
    THEN [err |-> FALSE, ToKey |-> bs[bundleId + 1].ToKey]
    ELSE [err |-> TRUE, ToKey |-> <<>>]

\* the whole lookup over the bundles bs, uninterrupted
RECURSIVE FindRun(_, _)
FindRun(f, bs) ==
    IF f.pc = "done" THEN f
    ELSE FindRun(FindStep(f, Answer(bs, NextRequest(f))), bs)

\* the bundles the collector was built over
View == SubSeq(bundles, 1, collector.totalBundles)

\* heights do not decrease, and the chunks of one height are numbered
\* 0, 1, 2, ... over contiguous ids
WellFormed(bs) ==
    \A i \in 1..Len(bs) :
        IF i > 1 /\ bs[i - 1].height = bs[i].height
        THEN bs[i].chunkIndex = bs[i - 1].chunkIndex + 1
        ELSE bs[i].chunkIndex = 0 /\ (i > 1 => bs[i - 1].height < bs[i].height)

Present(bs, h) == \E i \in 1..Len(bs) : bs[i].height = h

\* b is the id of the first bundle of height h
FirstBundleOf(bs, b, h) ==
    /\ b \in 0..(Len(bs) - 1)
    /\ bs[b + 1].height = h /\ bs[b + 1].chunkIndex = 0
    /\ b = 0 \/ bs[b].height < h

\* a lookup returned, every request of it answered
FindDone == collector.state = "ready" /\ find.pc = "done" /\ find.failedAt = 0

ExampleBundles ==
    LET heights == <<1000, 1000, 2000, 2000, 3000, 3000, 4000, 4000, 4000, 4000>>
        parts == <<0, 1, 0, 1, 0, 1, 0, 1, 2, 3>>
    IN  [i \in 1..10 |-> Bundle(heights[i], parts[i])]

ExampleCollector(latest) ==
    [state |-> "ready", earliestAvailableHeight |-> 1000,
     latestAvailableHeight |-> latest, interval |-> 1000, totalBundles |-> 10]

ExampleLookup(latest, h) == FindRun(FindBegin(ExampleCollector(latest), h), ExampleBundles)

C1_Example ==
    /\ ExampleLookup(4000, 4000).err = "" /\ ExampleLookup(4000, 4000).id = 6
    /\ ExampleLookup(4000, 4000).requests = <<9>>
    /\ ExampleLookup(3000, 4000).err = "" /\ ExampleLookup(3000, 4000).id = 6
    /\ ExampleLookup(3000, 4000).requests = <<4, 7>>

\* C1: over a well-formed bundle sequence FindSnapshotBundleIdForHeight(h)
\* returns the id of the first bundle of height h for every h present, through
\* the fast path and through the binary search alike, and the
\* height-not-found error for every h absent; the lookup of 4000 in the
\* ten-bundle example returns 6.
C1_FindsFirstBundle ==
    /\ (FindDone /\ WellFormed(View)) =>
           IF Present(View, find.height)
           THEN find.err = "" /\ FirstBundleOf(View, find.id, find.height)
           ELSE find.err = "notfound"
    /\ C1_Example

\* the binary search hit a later chunk of the height and walked back
C1_Witness ==
    /\ FindDone /\ WellFormed(View) /\ find.err = ""
    /\ find.height # collector.latestAvailableHeight
    /\ Len(find.requests) >= 1
    /\ find.id < find.requests[Len(find.requests)]
    /\ find.id > 0

-----------------------------------------------------------------------------
(* C7: one collector while the pool grows *)

\* the lookup as it would have run, uninterrupted, when the collector was
\* built
BuiltView == SubSeq(bundles, 1, built.totalBundles)

AtConstruction(h) == FindRun(FindBegin(built, h), BuiltView)

\* C7: while the pool grows, no operation changes earliestAvailableHeight,
\* latestAvailableHeight, interval or totalBundles, and GetSnapshotHeight and
\* FindSnapshotBundleIdForHeight return for the same arguments what they
\* would have returned right after construction, whenever and in whatever
\* order they are called.
C7_SameResultWhilePoolGrows ==
    /\ collector = built
    /\ FindDone =>
           /\ find.err = AtConstruction(find.height).err
           /\ find.id = AtConstruction(find.height).id
    /\ IsSnapshotHeightCall =>
           ret.value = GetSnapshotHeight(built, ret.target, ret.serve)

\* the pool finalized a bundle of a new height while the lookup was waiting
\* for its second answer
C7_Witness ==
    /\ FindDone /\ find.err = ""
    /\ Len(find.requests) >= 2
    /\ Len(bundles) > collector.totalBundles
    /\ LastBundle.height > find.height
    /\ LastBundle.height > collector.latestAvailableHeight + collector.interval

-----------------------------------------------------------------------------
(* C9: a failed request ends the lookup *)

\* C9: when fetching a bundle or decoding its toKey fails at a probe, the
\* lookup ends at that probe with an error: it has issued no request after
\* the failed one and returns no bundle id.
C9_FailureEndsLookup ==
    /\ find.failedAt # 0 =>
           /\ find.pc = "done"
           /\ find.err \in {"fetch", "parse"}
           /\ Len(find.requests) = find.failedAt
           /\ find.id = 0
    /\ (find.pc = "done" /\ find.err \in {"fetch", "parse"}) => find.failedAt # 0

\* the third request of a binary search was answered without a toKey
C9_Witness ==
    /\ find.pc = "done" /\ find.err = "parse"
    /\ find.failedAt = 3 /\ Len(find.requests) = 3
    /\ find.height # collector.latestAvailableHeight


-----------------------------------------------------------------------------
(* The start command *)

Modes == {"auto", "db", "p2p", "fast"}
ChainIds == {"kyve-1", "kaon-1", "korellia", "local"}

RestEndpointMainnet == <<"m">>
RestEndpointKaon == <<"k">>
RestEndpointKorellia == <<"o">>

RestEndpoints == {<<>>, <<"r">>, <<"r", "/">>}
DaemonPaths == {<<>>, <<"d">>}

\* strings.TrimSuffix(s, "/")
TrimSuffix(s) ==
    IF s # <<>> /\ s[Len(s)] = "/" THEN SubSeq(s, 1, Len(s) - 1) ELSE s

\* a Sync Executor: the task it runs in, where it is, the height it reached
\* and the terminal message it emits
NoExecutor == [task |-> "none", pc |-> "idle", height |-> 0, message |-> "none"]

StartInit ==
    /\ \E mode \in Modes, chainId \in ChainIds, restEndpoint \in RestEndpoints,
          daemonPath \in DaemonPaths, targetHeight \in 0..MaxTarget :
           cmd = [pc |-> "run", mode |-> mode, chainId |-> chainId,
                  restEndpoint |-> restEndpoint, daemonPath |-> daemonPath,
                  targetHeight |-> targetHeight, executor |-> NoExecutor]
    /\ pool = BasePool
    /\ bundles = <<>>
    /\ remote = NoSnapshot
    /\ collector = NoCollector
    /\ find = IdleFind
    /\ ret = NoRet
    /\ built = NoCollector

NotStart == <<pool, bundles, remote, collector, find, ret, built>>

\* the rest endpoint: the flag, or the endpoint of the chain id
RestEndpointOf(chainId) ==
    CASE chainId = "kyve-1" -> RestEndpointMainnet
      [] chainId = "kaon-1" -> RestEndpointKaon
      [] chainId = "korellia" -> RestEndpointKorellia
      [] OTHER -> <<>>

ResolveRestEndpoint ==
    /\ cmd.pc = "run"
    /\ IF cmd.restEndpoint = <<>> /\ RestEndpointOf(cmd.chainId) = <<>>
       THEN cmd' = [cmd EXCEPT !.pc = "panic"]
       ELSE cmd' = [cmd EXCEPT
                !.pc = "mode",
                !.restEndpoint = TrimSuffix(IF cmd.restEndpoint = <<>>
                                            THEN RestEndpointOf(cmd.chainId)
                                            ELSE cmd.restEndpoint)]
    /\ UNCHANGED NotStart

\* the task the executor of the mode is started in: "go" is a goroutine of
\* its own, "main" the task of the command itself
ExecutorTask(mode) == IF mode = "auto" THEN "main" ELSE "go"

\* the switch on the mode
StartExecutor ==
    /\ cmd.pc = "mode"
    /\ IF cmd.mode \notin {"auto", "db", "p2p"}
          \/ (cmd.mode = "auto" /\ cmd.daemonPath = <<>>)
       THEN cmd' = [cmd EXCEPT !.pc = "panic"]
       ELSE cmd' = [cmd EXCEPT
                !.pc = IF ExecutorTask(cmd.mode) = "main" THEN "call" ELSE "receive",
                !.executor = [NoExecutor EXCEPT !.task = ExecutorTask(cmd.mode),
                                                !.pc = "running"]]
    /\ UNCHANGED NotStart

\* the height the executor syncs to: the target, or the latest of the pool
SyncTarget == IF cmd.targetHeight = 0 THEN MaxTarget ELSE cmd.targetHeight

ExecutorSync ==
    /\ cmd.executor.pc = "running"
    /\ cmd.executor.height < SyncTarget
    /\ cmd' = [cmd EXCEPT !.executor.height = @ + 1]
    /\ UNCHANGED NotStart

\* the executor finished: it goes to send its terminal message on quitCh
ExecutorFinish ==
    /\ cmd.executor.pc = "running"
    /\ cmd.executor.height = SyncTarget
    /\ cmd' = [cmd EXCEPT !.executor.pc = "send", !.executor.message = "finished"]
    /\ UNCHANGED NotStart

\* the executor failed: it goes to send its terminal message on quitCh
ExecutorFail ==
    /\ cmd.executor.pc = "running"
    /\ cmd' = [cmd EXCEPT !.executor.pc = "send", !.executor.message = "failed"]
    /\ UNCHANGED NotStart

\* quitCh is unbuffered: the send and the receive happen together, the
\* sender in one task and the receiver in another
Rendezvous ==
    /\ cmd.pc = "receive"
    /\ cmd.executor.pc = "send"
    /\ cmd.executor.task = "go"
    /\ cmd' = [cmd EXCEPT !.pc = "returned", !.executor.pc = "done"]
    /\ UNCHANGED NotStart

StartNext ==
    \/ ResolveRestEndpoint
    \/ StartExecutor
    \/ ExecutorSync
    \/ ExecutorFinish
    \/ ExecutorFail
    \/ Rendezvous

StartSpec == StartInit /\ [][StartNext]_vars

-----------------------------------------------------------------------------
(* C8: the start command and its executor *)

ExecutorStarted == cmd.executor.pc # "idle"

\* the command's task is in the executor's send on quitCh, which only the
\* command's task receives from
BlockedOnItself ==
    cmd.pc = "call" /\ cmd.executor.pc = "send" /\ cmd.executor.task = "main"

\* C8: in each of the modes auto, db and p2p the executor runs as a task of
\* its own, the command returns only after the executor's terminal message,
\* and command and executor are never blocked on each other.
C8_ExecutorRunsAsOwnTask ==
    /\ ExecutorStarted => cmd.executor.task = "go"
    /\ cmd.pc = "returned" =>
           cmd.executor.pc = "done" /\ cmd.executor.message # "none"
    /\ ~BlockedOnItself

=============================================================================
